---- MODULE Spec2Model ----
(***************************************************************************)
(* sdif-sys/wrapper.h, the only code of the repository: the header that    *)
(* bindgen is pointed at.  The model is the C preprocessor working through *)
(* the header line by line, in a translation unit that includes it up to   *)
(* MaxIncludes times.  What <sdif.h> declares is outside the repository    *)
(* and is left open: any subset of LibSymbols.                             *)
(***************************************************************************)
EXTENDS Naturals, Sequences, FiniteSets

\* How often the translation unit includes wrapper.h (bindgen: once, as root).
MaxIncludes == 2

\* Stand-ins for the names the external library may declare; which of them
\* <sdif.h> does declare is open.
LibSymbols == {"lib_a", "lib_b", "lib_c"}

\* One line of a header: a preprocessor directive with its operand, or text.
\* The operand of a text line is what the line declares; a blank line or a
\* comment line declares nothing ("").
Line(kind, arg) == [kind |-> kind, arg |-> arg]

\* wrapper.h with one line of its own added after the include: a declaration.
WrapperHWithOwnDecl ==
  << Line("ifndef", "WRAPPER_H"),
     Line("define", "WRAPPER_H"),
     Line("text", ""),
     Line("text", ""), Line("text", ""), Line("text", ""),
     Line("text", ""), Line("text", ""), Line("text", ""),
     Line("text", ""),
     Line("text", ""),
     Line("include", "sdif.h"),
     Line("text", "sdif_wrapper_version"),
     Line("endif", "") >>

\* wrapper.h, lines 1 to 14.
WrapperH ==
  << Line("ifndef", "WRAPPER_H"),       \*  1  #ifndef WRAPPER_H
     Line("define", "WRAPPER_H"),       \*  2  #define WRAPPER_H
     Line("text", ""),                  \*  3  (blank)
     Line("text", ""), Line("text", ""), Line("text", ""),  \* 4-6  comment
     Line("text", ""), Line("text", ""), Line("text", ""),  \* 7-9  comment
     Line("text", ""),                  \* 10  (blank)
     Line("text", ""),                  \* 11  comment
     Line("include", "sdif.h"),         \* 12  #include <sdif.h>
     Line("text", ""),                  \* 13  (blank)
     Line("endif", "") >>               \* 14  #endif /* WRAPPER_H */

VARIABLES
  pc,          \* the line of wrapper.h to process next; 0: in the including file
  count,       \* how often wrapper.h has been included so far
  predefined,  \* the macros defined before the first inclusion (-D...)
  macros,      \* the macros defined now
  cond,        \* the open #if groups: TRUE where the group is taken
  includes,    \* the headers wrapper.h has included, in order
  decls,       \* the declarations of the translation unit, with their origin
  ext          \* what <sdif.h> declares

vars == <<pc, count, predefined, macros, cond, includes, decls, ext>>

\* A line takes effect when every enclosing #if group is taken.
Active == \A i \in DOMAIN cond : cond[i]

\* After the header's last line the preprocessor is back in the including file.
NextPc == IF pc = Len(WrapperH) THEN 0 ELSE pc + 1

AtLine(kind) == pc \in DOMAIN WrapperH /\ WrapperH[pc].kind = kind

Init ==
  /\ pc = 0
  /\ count = 0
  /\ predefined \in SUBSET {"WRAPPER_H"}
  /\ macros = predefined
  /\ cond = << >>
  /\ includes = << >>
  /\ decls = {}
  /\ ext \in SUBSET LibSymbols

\* The including file reaches an #include of wrapper.h.
IncludeWrapper ==
  /\ pc = 0
  /\ count < MaxIncludes
  /\ pc' = 1
  /\ count' = count + 1
  /\ UNCHANGED <<predefined, macros, cond, includes, decls, ext>>

\* #ifndef M opens a group, taken when M is not defined.
Ifndef ==
  /\ AtLine("ifndef")
  /\ cond' = Append(cond, WrapperH[pc].arg \notin macros)
  /\ pc' = NextPc
  /\ UNCHANGED <<count, predefined, macros, includes, decls, ext>>

\* #define M defines M, unless the line is skipped.
Define ==
  /\ AtLine("define")
  /\ macros' = IF Active THEN macros \cup {WrapperH[pc].arg} ELSE macros
  /\ pc' = NextPc
  /\ UNCHANGED <<count, predefined, cond, includes, decls, ext>>

\* #include <h> brings in what h declares, unless the line is skipped.
Include ==
  /\ AtLine("include")
  /\ includes' = IF Active THEN Append(includes, WrapperH[pc].arg) ELSE includes
  /\ decls' = IF Active
                THEN decls \cup {[name |-> s, origin |-> WrapperH[pc].arg] : s \in ext}
                ELSE decls
  /\ pc' = NextPc
  /\ UNCHANGED <<count, predefined, macros, cond, ext>>

\* #endif closes the innermost group.
Endif ==
  /\ AtLine("endif")
  /\ cond' = SubSeq(cond, 1, Len(cond) - 1)
  /\ pc' = NextPc
  /\ UNCHANGED <<count, predefined, macros, includes, decls, ext>>

\* Any other line: what it declares is a declaration of wrapper.h's own.
Text ==
  /\ AtLine("text")
  /\ decls' = IF Active /\ WrapperH[pc].arg # ""
                THEN decls \cup {[name |-> WrapperH[pc].arg, origin |-> "wrapper.h"]}
                ELSE decls
  /\ pc' = NextPc
  /\ UNCHANGED <<count, predefined, macros, cond, includes, ext>>

Next ==
  \/ IncludeWrapper
  \/ Ifndef
  \/ Define
  \/ Include
  \/ Endif
  \/ Text

Spec == Init /\ [][Next]_vars

\* C1: wrapper.h is pure glue.  Whatever the translation unit holds after any
\* number of lines and inclusions of wrapper.h, every declaration in it comes
\* from <sdif.h> and is one the external library declares; wrapper.h includes
\* no header but <sdif.h>, and because of its WRAPPER_H guard it does so at most
\* once (never, when WRAPPER_H was defined beforehand); the only macro it adds
\* is the guard itself.
C1_PureGlue ==
  /\ \A d \in decls : d.origin = "sdif.h" /\ d.name \in ext
  /\ \A i \in DOMAIN includes : includes[i] = "sdif.h"
  /\ Len(includes) <= 1
  /\ ("WRAPPER_H" \in predefined) => (includes = << >> /\ decls = {})
  /\ macros \ predefined \subseteq {"WRAPPER_H"}

\* C1: wrapper.h has been included twice and processed to its end: the first
\* pass included <sdif.h> and brought in the library's declarations, the
\* second was skipped by the guard.
C1_Witness ==
  /\ pc = 0
  /\ count >= 2
  /\ includes = <<"sdif.h">>
  /\ decls # {}
  /\ Cardinality(decls) = Cardinality(ext)
  /\ "WRAPPER_H" \in macros \ predefined

====
